---------------------------- MODULE Spec2Model ----------------------------
(***************************************************************************)
(* Swagger/OpenAPI script generator: core.py (fetch_spec, list_endpoints,  *)
(* generate_script, the four renderers, save_script) and the session kept  *)
(* by main.pyw's SwaggerApp (spec, endpoints, selected_endpoints,          *)
(* param_values) with its three handlers.                                  *)
(*                                                                         *)
(* Representation.  A Python str that the code takes apart (lower, upper,  *)
(* capitalize, replace, concatenation) is a sequence of one-character      *)
(* strings.  A Python dict whose iteration order the code relies on is a   *)
(* sequence of <<key, value>> pairs with distinct keys, in insertion       *)
(* order.  A dict the code only reads with .get / [] by a fixed key (the   *)
(* document, an operation, a parameter) is a record; an absent key is a    *)
(* field the record does not have.  None-or-str is a sequence of length    *)
(* at most one.  Generated source text is the sequence of its `code +=`    *)
(* fragments, each <<format, argument, ...>>, line breaks left out.        *)
(***************************************************************************)
EXTENDS Naturals, Sequences, FiniteSets, TLC

(***************************************************************************)
(* Python str and dict primitives                                          *)
(***************************************************************************)
LowerLetters ==
    <<"a","b","c","d","e","f","g","h","i","j","k","l","m",
      "n","o","p","q","r","s","t","u","v","w","x","y","z">>

UpperLetters ==
    <<"A","B","C","D","E","F","G","H","I","J","K","L","M",
      "N","O","P","Q","R","S","T","U","V","W","X","Y","Z">>

LowerChar(c) ==
    IF \E i \in DOMAIN UpperLetters : UpperLetters[i] = c
    THEN LowerLetters[CHOOSE i \in DOMAIN UpperLetters : UpperLetters[i] = c]
    ELSE c

UpperChar(c) ==
    IF \E i \in DOMAIN LowerLetters : LowerLetters[i] = c
    THEN UpperLetters[CHOOSE i \in DOMAIN LowerLetters : LowerLetters[i] = c]
    ELSE c

\* str.lower()
Lower(s) == [i \in DOMAIN s |-> LowerChar(s[i])]

\* str.upper()
Upper(s) == [i \in DOMAIN s |-> UpperChar(s[i])]

\* str.capitalize(): first character upper-cased, the rest lower-cased
Capitalize(s) == [i \in DOMAIN s |-> IF i = 1 THEN UpperChar(s[i]) ELSE LowerChar(s[i])]

RECURSIVE Replace(_, _, _)
\* str.replace(old, new) for a non-empty old: leftmost, non-overlapping
Replace(s, old, new) ==
    IF Len(s) < Len(old) THEN s
    ELSE IF SubSeq(s, 1, Len(old)) = old
         THEN new \o Replace(SubSeq(s, Len(old) + 1, Len(s)), old, new)
         ELSE <<s[1]>> \o Replace(Tail(s), old, new)

\* `needle in s` for strings
Contains(s, needle) ==
    \E i \in 1..(Len(s) + 1) :
        /\ i + Len(needle) - 1 <= Len(s)
        /\ SubSeq(s, i, i + Len(needle) - 1) = needle

\* the f-string "{" + name + "}" written f"{{{name}}}" in the source
Placeholder(name) == <<"{">> \o name \o <<"}">>

EmptyStr == << >>

EmptyDict == << >>

DictKeys(d) == {d[i][1] : i \in DOMAIN d}

DictHas(d, k) == \E i \in DOMAIN d : d[i][1] = k

\* d[k] for a key that is present
DictAt(d, k) == d[CHOOSE i \in DOMAIN d : d[i][1] = k][2]

\* d.get(k, default)
DictGet(d, k, default) == IF DictHas(d, k) THEN DictAt(d, k) ELSE default

\* d[k] = v: an existing key keeps its place, a new key goes last
DictSet(d, k, v) ==
    IF DictHas(d, k)
    THEN [i \in DOMAIN d |-> IF d[i][1] = k THEN <<k, v>> ELSE d[i]]
    ELSE Append(d, <<k, v>>)

\* r.get(field, default) on a record
RecGet(r, field, default) == IF field \in DOMAIN r THEN r[field] ELSE default

RECURSIVE Concat(_)
\* the concatenation of a sequence of sequences
Concat(ss) == IF ss = << >> THEN << >> ELSE Head(ss) \o Concat(Tail(ss))

RECURSIVE Join(_, _)
\* sep.join(parts)
Join(sep, parts) ==
    IF parts = << >> THEN << >>
    ELSE IF Len(parts) = 1 THEN parts[1]
    ELSE parts[1] \o sep \o Join(sep, Tail(parts))

\* '&'.join(f"{k}={v}" for k, v in d.items())
QueryString(d) == Join(<<"&">>, [i \in DOMAIN d |-> d[i][1] \o <<"=">> \o d[i][2]])

\* json.dumps of a dict of str to str (no character of the model needs escaping)
JsonDumps(d) ==
    <<"{">>
    \o Join(<<",", " ">>,
            [i \in DOMAIN d |->
                <<"\"">> \o d[i][1] \o <<"\"", ":", " ", "\"">> \o d[i][2] \o <<"\"">>])
    \o <<"}">>

(***************************************************************************)
(* core.py: list_endpoints                                                 *)
(***************************************************************************)
HttpMethods ==
    { <<"g","e","t">>, <<"p","o","s","t">>, <<"p","u","t">>,
      <<"d","e","l","e","t","e">>, <<"p","a","t","c","h">>,
      <<"o","p","t","i","o","n","s">>, <<"h","e","a","d">> }

\* a filter that compares the key as written
IsHttpMethodCaseSensitive(method) == method \in HttpMethods

\* the filter of line 51: method.lower() in [...]
IsHttpMethod(method) == Lower(method) \in HttpMethods

\* the dictionary appended at lines 55-61
EndpointDescriptor(path, method, operation) ==
    [ method      |-> Upper(method),
      path        |-> path,
      summary     |-> RecGet(operation, "summary", ""),
      operationId |-> RecGet(operation, "operationId", ""),
      parameters  |-> RecGet(operation, "parameters", << >>) ]

RECURSIVE MethodsLoop(_, _)
\* the inner loop, lines 50-61, over one path's methods.items()
MethodsLoop(path, methods) ==
    IF methods = << >> THEN << >>
    ELSE LET method    == Head(methods)[1]
             operation == Head(methods)[2]
         IN  IF ~IsHttpMethod(method)
             THEN MethodsLoop(path, Tail(methods))
             ELSE <<EndpointDescriptor(path, method, operation)>>
                  \o MethodsLoop(path, Tail(methods))

RECURSIVE PathsLoop(_)
\* the outer loop, line 49, over paths.items()
PathsLoop(paths) ==
    IF paths = << >> THEN << >>
    ELSE MethodsLoop(Head(paths)[1], Head(paths)[2]) \o PathsLoop(Tail(paths))

\* A parsed document that is a mapping has kind "mapping"; any other JSON/YAML
\* value (a list, a scalar) has kind "other" and no .get: AttributeError.
IsMapping(spec) == spec.kind = "mapping"

list_endpoints(spec) ==
    IF ~IsMapping(spec)
    THEN [ok |-> FALSE, error |-> "AttributeError", value |-> << >>]
    ELSE [ok |-> TRUE, error |-> "", value |-> PathsLoop(RecGet(spec, "paths", EmptyDict))]

(***************************************************************************)
(* core.py: the four renderers.  body_param is None (<< >>) or a str       *)
(* (<<value>>); `if body_param` holds for a non-empty str only.            *)
(***************************************************************************)
Truthy(body_param) == body_param # << >> /\ body_param[1] # EmptyStr

generate_python_code(url, method, query_params, header_params, body_param, form_params) ==
    Concat(<<
        << <<"import requests">> >>,
        << <<"url = '%s'", url>> >>,
        IF query_params # EmptyDict
            THEN << <<"params = %s", JsonDumps(query_params)>> >>
            ELSE << <<"params = {}">> >>,
        IF header_params # EmptyDict
            THEN << <<"headers = %s", JsonDumps(header_params)>> >>
            ELSE << <<"headers = {}">> >>,
        IF Truthy(body_param)
            THEN << <<"json_body = %s", body_param[1]>> >>
            ELSE << <<"json_body = None">> >>,
        IF form_params # EmptyDict
            THEN << <<"data = %s", JsonDumps(form_params)>> >>
            ELSE << <<"data = None">> >>,
        << <<"response = requests.%s(", method>> >>,
        << <<"    url,">> >>,
        << <<"    params=params,">> >>,
        << <<"    headers=headers,">> >>,
        IF Truthy(body_param) THEN << <<"    json=json_body,">> >> ELSE << >>,
        IF form_params # EmptyDict THEN << <<"    data=data,">> >> ELSE << >>,
        << <<")">> >>,
        << <<"print('Status Code:', response.status_code)">> >>,
        << <<"print('Response Body:', response.text)">> >>
    >>)

generate_csharp_code(url, method, query_params, header_params, body_param, form_params) ==
    Concat(<<
        << <<"using System; using System.Net.Http; using System.Threading.Tasks; using Newtonsoft.Json;">> >>,
        << <<"class Program {">> >>,
        << <<"    static async Task Main(string[] args) {">> >>,
        << <<"        var client = new HttpClient();">> >>,
        << <<"        var url = \"%s\";", url>> >>,
        IF query_params # EmptyDict
            THEN << <<"        url += \"?%s\";", QueryString(query_params)>> >>
            ELSE << >>,
        [i \in DOMAIN header_params |->
            <<"        client.DefaultRequestHeaders.Add(\"%s\", \"%s\");",
              header_params[i][1], header_params[i][2]>>],
        IF Truthy(body_param)
            THEN << <<"        var jsonBody = %s;", body_param[1]>>,
                    <<"        var content = new StringContent(JsonConvert.SerializeObject(jsonBody), System.Text.Encoding.UTF8, \"application/json\");">> >>
            ELSE IF form_params # EmptyDict
            THEN << <<"        var content = new FormUrlEncodedContent(new[] {">> >>
                 \o [i \in DOMAIN form_params |->
                        <<"            new KeyValuePair<string, string>(\"%s\", \"%s\"),",
                          form_params[i][1], form_params[i][2]>>]
                 \o << <<"        });">> >>
            ELSE << <<"        HttpContent content = null;">> >>,
        << <<"        var response = await client.%sAsync(url, content);", Capitalize(method)>> >>,
        << <<"        var responseString = await response.Content.ReadAsStringAsync();">> >>,
        << <<"        Console.WriteLine($\"Status Code: {response.StatusCode}\");">> >>,
        << <<"        Console.WriteLine($\"Response Body: {responseString}\");">> >>,
        << <<"    } }">> >>
    >>)

generate_javascript_code(url, method, query_params, header_params, body_param, form_params) ==
    Concat(<<
        << <<"const fetch = require('node-fetch');">> >>,
        << <<"let url = '%s';", url>> >>,
        IF query_params # EmptyDict
            THEN << <<"url += '?%s';", QueryString(query_params)>> >>
            ELSE << >>,
        << <<"const options = {">> >>,
        << <<"    method: '%s',", Upper(method)>> >>,
        IF header_params # EmptyDict
            THEN << <<"    headers: {">> >>
                 \o [i \in DOMAIN header_params |->
                        <<"        '%s': '%s',", header_params[i][1], header_params[i][2]>>]
                 \o << <<"    },">> >>
            ELSE << >>,
        IF Truthy(body_param)
            THEN << <<"    body: JSON.stringify(%s),", body_param[1]>> >>
            ELSE IF form_params # EmptyDict
            THEN << <<"    body: new URLSearchParams({">> >>
                 \o [i \in DOMAIN form_params |->
                        <<"        '%s': '%s',", form_params[i][1], form_params[i][2]>>]
                 \o << <<"    }),">> >>
            ELSE << >>,
        << <<"};">> >>,
        << <<"fetch(url, options)">> >>,
        << <<"    .then(response => response.text())">> >>,
        << <<"    .then(text => {">> >>,
        << <<"        console.log('Response Body:', text);">> >>,
        << <<"    })">> >>,
        << <<"    .catch(err => console.error('Error:', err));">> >>
    >>)

generate_php_code(url, method, query_params, header_params, body_param, form_params) ==
    Concat(<<
        << <<"<?php">> >>,
        << <<"$ch = curl_init();">> >>,
        IF query_params # EmptyDict
            THEN << <<"$url = '%s?%s';", url, QueryString(query_params)>> >>
            ELSE << <<"$url = '%s';", url>> >>,
        << <<"curl_setopt($ch, CURLOPT_URL, $url);">> >>,
        << <<"curl_setopt($ch, CURLOPT_CUSTOMREQUEST, '%s');", Upper(method)>> >>,
        << <<"curl_setopt($ch, CURLOPT_RETURNTRANSFER, true);">> >>,
        IF header_params # EmptyDict
            THEN << <<"$headers = [">> >>
                 \o [i \in DOMAIN header_params |->
                        <<"    '%s: %s',", header_params[i][1], header_params[i][2]>>]
                 \o << <<"];">>, <<"curl_setopt($ch, CURLOPT_HTTPHEADER, $headers);">> >>
            ELSE << >>,
        IF Truthy(body_param)
            THEN << <<"$data = json_encode(%s);", body_param[1]>>,
                    <<"curl_setopt($ch, CURLOPT_POSTFIELDS, $data);">> >>
            ELSE IF form_params # EmptyDict
            THEN << <<"$data = http_build_query([">> >>
                 \o [i \in DOMAIN form_params |->
                        <<"    '%s' => '%s',", form_params[i][1], form_params[i][2]>>]
                 \o << <<"]);">>, <<"curl_setopt($ch, CURLOPT_POSTFIELDS, $data);">> >>
            ELSE << >>,
        << <<"$response = curl_exec($ch);">> >>,
        << <<"curl_close($ch);">> >>,
        << <<"echo 'Response Body: ' . $response;">> >>,
        << <<"?>">> >>
    >>)

\* the dispatch of lines 112-121 is on these four names
SupportedLanguages == {"Python", "C#", "JavaScript", "PHP"}

(***************************************************************************)
(* core.py: generate_script                                                *)
(***************************************************************************)
Raise(error) == [ok |-> FALSE, error |-> error, code |-> << >>]

Return(code) == [ok |-> TRUE, error |-> "", code |-> code]

\* lines 69-77; schemes[0] of an empty list is an IndexError
BaseUrl(spec) ==
    LET servers == RecGet(spec, "servers", << >>)
        host == RecGet(spec, "host", EmptyStr)
        base_path == RecGet(spec, "basePath", EmptyStr)
        schemes == RecGet(spec, "schemes", << <<"h","t","t","p","s">> >>)
    IN  IF servers # << >> THEN [ok |-> TRUE, value |-> servers[1].url]
        ELSE IF schemes = << >> THEN [ok |-> FALSE, value |-> EmptyStr]
        ELSE [ok |-> TRUE, value |-> schemes[1] \o <<":","/","/">> \o host \o base_path]

NoBuckets ==
    [ path_params   |-> << >>,
      query_params  |-> EmptyDict,
      header_params |-> EmptyDict,
      body_param    |-> << >>,
      form_params   |-> EmptyDict ]

RECURSIVE BucketParameters(_, _, _)
\* the loop of lines 93-105
BucketParameters(parameters, param_values, acc) ==
    IF parameters = << >> THEN acc
    ELSE LET param == Head(parameters)
             name  == param.name
             value == DictGet(param_values, name, EmptyStr)
             next  ==
                 CASE param.in = "path" ->
                        [acc EXCEPT !.path_params = Append(@, <<name, value>>)]
                   [] param.in = "query" ->
                        [acc EXCEPT !.query_params = DictSet(@, name, value)]
                   [] param.in = "header" ->
                        [acc EXCEPT !.header_params = DictSet(@, name, value)]
                   [] param.in = "body" ->
                        [acc EXCEPT !.body_param = <<value>>]
                   [] param.in = "formData" ->
                        [acc EXCEPT !.form_params = DictSet(@, name, value)]
                   [] OTHER -> acc
         IN  BucketParameters(Tail(parameters), param_values, next)

\* a loop that stops after the first path parameter
SubstituteFirstOnly(url, path_params) ==
    IF path_params = << >> THEN url
    ELSE Replace(url, Placeholder(Head(path_params)[1]), Head(path_params)[2])

RECURSIVE SubstitutePathParams(_, _)
\* the loop of lines 108-109; str(value) of a str is the str
SubstitutePathParams(url, path_params) ==
    IF path_params = << >> THEN url
    ELSE SubstitutePathParams(
             Replace(url, Placeholder(Head(path_params)[1]), Head(path_params)[2]),
             Tail(path_params))

\* lines 112-121
Render(language, url, method, b) ==
    CASE language = "Python" ->
           Return(generate_python_code(url, method, b.query_params, b.header_params,
                                       b.body_param, b.form_params))
      [] language = "C#" ->
           Return(generate_csharp_code(url, method, b.query_params, b.header_params,
                                       b.body_param, b.form_params))
      [] language = "JavaScript" ->
           Return(generate_javascript_code(url, method, b.query_params, b.header_params,
                                           b.body_param, b.form_params))
      [] language = "PHP" ->
           Return(generate_php_code(url, method, b.query_params, b.header_params,
                                    b.body_param, b.form_params))
      [] OTHER -> Raise("UnsupportedLanguage")

\* lines 79-81: spec['paths'][path][method] with the lower-cased method
LookupOperation(spec, endpoint) ==
    LET method == Lower(endpoint.method)
        path   == endpoint.path
    IN  IF "paths" \notin DOMAIN spec THEN [ok |-> FALSE, value |-> [none |-> TRUE]]
        ELSE IF ~DictHas(spec.paths, path) THEN [ok |-> FALSE, value |-> [none |-> TRUE]]
        ELSE IF ~DictHas(DictAt(spec.paths, path), method)
             THEN [ok |-> FALSE, value |-> [none |-> TRUE]]
        ELSE [ok |-> TRUE, value |-> DictAt(DictAt(spec.paths, path), method)]

generate_script(spec, endpoint, param_values, language) ==
    IF ~IsMapping(spec) THEN Raise("AttributeError")
    ELSE IF ~BaseUrl(spec).ok THEN Raise("IndexError")
    ELSE IF ~LookupOperation(spec, endpoint).ok THEN Raise("KeyError")
    ELSE LET base_url  == BaseUrl(spec).value
             method    == Lower(endpoint.method)
             path      == endpoint.path
             operation == LookupOperation(spec, endpoint).value
             b   == BucketParameters(RecGet(operation, "parameters", << >>),
                                     param_values, NoBuckets)
             url == SubstitutePathParams(base_url \o path, b.path_params)
         IN  Render(language, url, method, b)

(***************************************************************************)
(* core.py: fetch_spec.  The response is what the network returned: its    *)
(* status code, what the Content-Type header or the URL's suffix say       *)
(* about the format ("json", "yaml", "none"), and its text, given by what  *)
(* json.loads and yaml.safe_load make of it.                               *)
(***************************************************************************)
ParseError == [ok |-> FALSE, error |-> "ParseError", value |-> [kind |-> "none"]]

\* json.loads(text)
JsonLoads(text) ==
    IF text.json THEN [ok |-> TRUE, error |-> "", value |-> text.document] ELSE ParseError

\* yaml.safe_load(text)
YamlLoad(text) ==
    IF text.yaml THEN [ok |-> TRUE, error |-> "", value |-> text.document] ELSE ParseError

fetch_spec(response) ==
    IF response.status_code # 200
    THEN [ok |-> FALSE, error |-> "FetchError", value |-> [kind |-> "none"]]
    ELSE CASE response.format = "json" -> JsonLoads(response.text)
           [] response.format = "yaml" -> YamlLoad(response.text)
           [] OTHER -> IF JsonLoads(response.text).ok
                       THEN JsonLoads(response.text)
                       ELSE YamlLoad(response.text)

(***************************************************************************)
(* main.pyw: the session of SwaggerApp                                     *)
(***************************************************************************)
VARIABLES
    spec,                \* self.spec: [kind |-> "none"] is None
    endpoints,           \* self.endpoints
    generate_enabled,    \* generate_button.isEnabled()
    selected_items,      \* endpoints_list.selectedItems(), as rows of the list
    selected_endpoints,  \* self.selected_endpoints
    param_values,        \* self.param_values: operationId -> (name -> value)
    files,               \* the disk: file path -> text written by save_script
    batches,             \* generate events so far
    entered,             \* history: for each selected endpoint, the values the
                         \* user entered in that endpoint's dialogs
    call                 \* history: the last handler or function run and its outcome

vars ==
    <<spec, endpoints, generate_enabled, selected_items, selected_endpoints,
      param_values, files, batches, entered, call>>

sessionVars ==
    <<spec, endpoints, generate_enabled, selected_items, selected_endpoints,
      param_values, files, batches, entered>>

\* SwaggerApp.__init__, but for self.spec
InitWidgets ==
    /\ endpoints = << >>
    /\ generate_enabled = FALSE
    /\ selected_items = << >>
    /\ selected_endpoints = << >>
    /\ param_values = EmptyDict
    /\ files = [p \in {} |-> << >>]
    /\ batches = 0
    /\ entered = << >>

\* SwaggerApp.__init__
InitSession == spec = [kind |-> "none"] /\ InitWidgets

NoCall == [fn |-> "none"]

\* ---- strings of the explored inputs
S_a == <<"a">>

S_aa == <<"a", "a">>

S_i == <<"i">>

S_q == <<"q">>

S_1 == <<"1">>

S_get == <<"g","e","t">>

S_GET == <<"G","E","T">>

S_Post == <<"P","o","s","t">>

S_put == <<"p","u","t">>

S_parameters == <<"p","a","r","a","m","e","t","e","r","s">>

S_host == <<"h">>

P_u == <<"/","u","/","{","i","}">>

P_v == <<"/","v">>

PathParam(name) == [name |-> name, in |-> "path"]

QueryParam(name) == [name |-> name, in |-> "query"]

\* An OpenAPI 3 document: two operations without operationId, and a shared
\* `parameters` block beside the methods of /u/{i}.
DocA ==
    [ kind    |-> "mapping",
      servers |-> << [url |-> S_host] >>,
      paths   |-> <<
          << P_u, <<
              << S_get, [summary |-> "read", parameters |-> << PathParam(S_i) >>] >>,
              << S_parameters, [shared |-> TRUE] >>,
              << S_put, [parameters |-> << PathParam(S_i) >>] >> >> >> >> ]

\* A Swagger 2 document whose method key is upper case.
DocB ==
    [ kind     |-> "mapping",
      host     |-> S_host,
      basePath |-> P_v,
      paths    |-> <<
          << P_v, <<
              << S_GET, [operationId |-> "getV",
                         parameters |-> << QueryParam(S_q) >>] >> >> >> >> ]

\* A document that parses but is no mapping (a JSON list, a YAML scalar).
DocOther == [kind |-> "other"]

\* The texts a server can hold: DocA as JSON (which YAML reads too), DocB as
\* YAML, a JSON list, and text neither parser accepts.
Texts ==
    { [json |-> TRUE,  yaml |-> TRUE,  document |-> DocA],
      [json |-> FALSE, yaml |-> TRUE,  document |-> DocB],
      [json |-> TRUE,  yaml |-> TRUE,  document |-> DocOther],
      [json |-> FALSE, yaml |-> FALSE, document |-> DocOther] }

\* What the network can answer
Responses ==
    [status_code : {200}, format : {"json", "yaml", "none"}, text : Texts]
    \cup [status_code : {404}, format : {"none"},
          text : {[json |-> FALSE, yaml |-> FALSE, document |-> DocOther]}]

\* QInputDialog.getText: (text, ok).  The parameter's default only pre-fills the
\* dialog and its description only labels it: the text is the user's.
DialogAnswers == { [ok |-> TRUE, text |-> S_1], [ok |-> FALSE, text |-> EmptyStr] }

\* A session is explored up to its MaxBatches-th generate event; the disk starts
\* empty.
MaxBatches == 1

\* ---- on_fetch_spec, with populate_endpoints
OnFetchSpec(url_empty, response) ==
    IF url_empty
    THEN /\ call' = [fn |-> "on_fetch_spec", status |-> "warning"]
         /\ UNCHANGED sessionVars
    ELSE LET fetched == fetch_spec(response)
             listed  == list_endpoints(fetched.value)
         IN  IF ~fetched.ok
             THEN /\ call' = [fn |-> "on_fetch_spec", status |-> "error"]
                  /\ UNCHANGED sessionVars
             ELSE IF ~listed.ok
             THEN /\ spec' = fetched.value
                  /\ call' = [fn |-> "on_fetch_spec", status |-> "error"]
                  /\ UNCHANGED <<endpoints, generate_enabled, selected_items,
                                 selected_endpoints, param_values, files, batches,
                                 entered>>
             ELSE /\ spec' = fetched.value
                  /\ endpoints' = listed.value
                  \* endpoints_list.clear(): no row is selected any more; the
                  \* selection handler, if the clear signals it, returns at line 89
                  /\ selected_items' = << >>
                  /\ generate_enabled' = TRUE
                  /\ call' = [fn |-> "on_fetch_spec", status |-> "success"]
                  /\ UNCHANGED <<selected_endpoints, param_values, files, batches,
                                 entered>>

\* ---- get_parameter_values: the dict built at lines 104-115
RECURSIVE AskParameters(_, _, _)
AskParameters(params, answers, acc) ==
    IF params = << >> THEN acc
    ELSE LET name   == Head(params).name
             answer == answers[Len(acc) + 1]
             value  == IF answer.ok THEN answer.text ELSE EmptyStr
         IN  AskParameters(Tail(params), answers, Append(acc, <<name, value>>))

\* the dict of lines 104-115, assigned key by key
RECURSIVE DictFrom(_, _)
DictFrom(pairs, d) ==
    IF pairs = << >> THEN d
    ELSE DictFrom(Tail(pairs), DictSet(d, Head(pairs)[1], Head(pairs)[2]))

EnteredValues(endpoint, answers) ==
    DictFrom(AskParameters(endpoint.parameters, answers, << >>), EmptyDict)

\* lines 99-116: nothing is stored for an endpoint without parameters
get_parameter_values(values, endpoint, answers) ==
    IF endpoint.parameters = << >> THEN values
    ELSE DictSet(values, endpoint.operationId, EnteredValues(endpoint, answers))

RECURSIVE SelectionLoop(_, _, _, _)
\* the loop of lines 93-97 from item k on; acc = <<selected_endpoints, param_values, entered>>
SelectionLoop(items, answers, k, acc) ==
    IF k > Len(items) THEN acc
    ELSE LET endpoint == endpoints[items[k]]
         IN  SelectionLoop(items, answers, k + 1,
                 << Append(acc[1], endpoint),
                    get_parameter_values(acc[2], endpoint, answers[k]),
                    Append(acc[3], IF endpoint.parameters = << >> THEN EmptyDict
                                   ELSE EnteredValues(endpoint, answers[k])) >>)

\* the sequences of distinct rows of the list
Selections ==
    { items \in UNION { [1..n -> DOMAIN endpoints] : n \in 0..Len(endpoints) } :
        \A i, j \in DOMAIN items : i # j => items[i] # items[j] }

\* ---- on_endpoint_selection_changed
OnEndpointSelectionChanged(items, answers) ==
    /\ selected_items' = items
    /\ call' = [fn |-> "on_endpoint_selection_changed"]
    /\ IF items = << >>
       THEN UNCHANGED <<selected_endpoints, param_values, entered>>
       ELSE LET done == SelectionLoop(items, answers, 1, << << >>, EmptyDict, << >> >>)
            IN  /\ selected_endpoints' = done[1]
                /\ param_values' = done[2]
                /\ entered' = done[3]
    /\ UNCHANGED <<spec, endpoints, generate_enabled, files, batches>>

\* the dialogs one selection change can open for one endpoint
DialogCount ==
    LET counts == {Len(endpoints[i].parameters) : i \in DOMAIN endpoints}
    IN  IF counts = {} THEN 0 ELSE CHOOSE n \in counts : \A m \in counts : m <= n

\* ---- get_file_extension
get_file_extension(language) ==
    CASE language = "Python" -> "pyw"
      [] language = "C#" -> "cs"
      [] language = "JavaScript" -> "js"
      [] language = "PHP" -> "php"
      [] OTHER -> "txt"

\* core.py save_script: open(filename, 'w') and write
save_script(disk, code, filepath) ==
    [p \in DOMAIN disk \cup {filepath} |-> IF p = filepath THEN code ELSE disk[p]]

\* the per-endpoint name of lines 139-140, used in both modes
SeparatePath(separate_files, output_dir, operation_id, language) ==
    <<output_dir, operation_id, get_file_extension(language)>>

\* lines 138-143: the path save_script is given
FilePath(separate_files, output_dir, operation_id, language) ==
    IF separate_files
    THEN <<output_dir, operation_id, get_file_extension(language)>>
    ELSE <<"cwd", "generated_script", get_file_extension(language)>>   \* os.getcwd()

RECURSIVE BatchLoop(_, _, _, _, _, _)
\* the loop of lines 133-147 from endpoint k on.  acc: the disk, the paths
\* written, the value map used and the code generated for each endpoint so far.
\* fail_at: the endpoint whose save_script raises (0: none does).
BatchLoop(k, acc, language, separate_files, output_dir, fail_at) ==
    IF k > Len(selected_endpoints) THEN [acc EXCEPT !.status = "success"]
    ELSE LET endpoint     == selected_endpoints[k]
             operation_id == endpoint.operationId
             values       == DictGet(param_values, operation_id, EmptyDict)
             generated    == generate_script(spec, endpoint, values, language)
             filepath     == FilePath(separate_files, output_dir, operation_id, language)
             tried        == [acc EXCEPT !.used = Append(@, values)]
         IN  IF ~generated.ok
             THEN [tried EXCEPT !.status = "error", !.error = generated.error]
             ELSE IF fail_at = k
             THEN [tried EXCEPT !.status = "error", !.error = "OSError",
                                !.codes = Append(@, generated.code)]
             ELSE BatchLoop(k + 1,
                      [tried EXCEPT !.disk = save_script(@, generated.code, filepath),
                                    !.written = @ \cup {filepath},
                                    !.codes = Append(@, generated.code)],
                      language, separate_files, output_dir, fail_at)

\* ---- on_generate_script; the button is dead until a fetch has enabled it
OnGenerateScript(language, separate_files, output_dir, fail_at) ==
    /\ generate_enabled
    /\ batches' = batches + 1
    /\ LET start == [ fn |-> "on_generate_script", status |-> "running", error |-> "",
                      language |-> language, separate_files |-> separate_files,
                      disk |-> files, written |-> {}, used |-> << >>, codes |-> << >> ]
       IN  IF selected_endpoints = << >>
           THEN /\ call' = [start EXCEPT !.status = "warning"]
                /\ UNCHANGED files
           ELSE IF separate_files /\ output_dir = ""
           THEN /\ call' = [start EXCEPT !.status = "warning"]
                /\ UNCHANGED files
           ELSE LET done == BatchLoop(1, start, language, separate_files, output_dir, fail_at)
                IN  /\ call' = done
                    /\ files' = done.disk
    /\ UNCHANGED <<spec, endpoints, generate_enabled, selected_items,
                   selected_endpoints, param_values, entered>>

\* language_combo offers the four supported names (line 42)
ComboItems == {"Python", "C#", "JavaScript", "PHP"}

\* QFileDialog.getExistingDirectory: "" when the dialog is cancelled
OutputDirs == {"", "out"}

\* lines 125-128: output_dir is os.getcwd() unless separate files are asked for
ChosenDirs(separate_files) == IF separate_files THEN OutputDirs ELSE {"cwd"}

Init == InitSession /\ call = NoCall

FetchEvent ==
    /\ batches < MaxBatches
    /\ \E response \in Responses :
          \E url_empty \in IF response.status_code = 200 THEN {FALSE} ELSE BOOLEAN :
              OnFetchSpec(url_empty, response)

SelectionEvent ==
    /\ batches < MaxBatches
    /\ \E items \in Selections :
          \E answers \in [DOMAIN items -> [1..DialogCount -> DialogAnswers]] :
              OnEndpointSelectionChanged(items, answers)

GenerateEvent ==
    /\ batches < MaxBatches
    /\ \E language \in ComboItems, separate_files \in BOOLEAN,
          fail_at \in 0..Len(selected_endpoints) :
          \E output_dir \in ChosenDirs(separate_files) :
              OnGenerateScript(language, separate_files, output_dir, fail_at)

Next == FetchEvent \/ SelectionEvent \/ GenerateEvent

Spec == Init /\ [][Next]_vars

(***************************************************************************)
(* The same session driven by a caller that passes any language name to    *)
(* the batch, not only the combo box's items.                              *)
(***************************************************************************)
LanguageNames == SupportedLanguages \cup {"Rust"}

GenerateEventAnyLanguage ==
    /\ batches < MaxBatches
    /\ \E language \in LanguageNames, separate_files \in BOOLEAN,
          fail_at \in 0..Len(selected_endpoints) :
          \E output_dir \in ChosenDirs(separate_files) :
              OnGenerateScript(language, separate_files, output_dir, fail_at)

NextAnyLanguage == FetchEvent \/ SelectionEvent \/ GenerateEventAnyLanguage

SpecAnyLanguage == Init /\ [][NextAnyLanguage]_vars

(***************************************************************************)
(* list_endpoints, then generate_script on what it returned, over the      *)
(* documents with at most MaxPaths paths of at most MaxMethods keys each.  *)
(***************************************************************************)
MaxPaths == 2

MaxMethods == 2

PathKeys == {P_u, P_v}

MethodKeys == {S_get, S_GET, S_Post, S_parameters}

\* the value under each key: an operation, or the shared parameters block
ValueUnder(key) ==
    CASE key = S_get -> [operationId |-> "lower", parameters |-> << PathParam(S_i) >>]
      [] key = S_GET -> [operationId |-> "upper", summary |-> "read"]
      [] key = S_Post -> [parameters |-> << QueryParam(S_q) >>]
      [] OTHER -> [shared |-> TRUE]

\* the sequences of at most n distinct elements of S
DistinctSeqs(S, n) ==
    { q \in UNION { [1..m -> S] : m \in 0..n } :
        \A i, j \in DOMAIN q : i # j => q[i] # q[j] }

MethodMaps ==
    { [i \in DOMAIN keys |-> <<keys[i], ValueUnder(keys[i])>>] :
        keys \in DistinctSeqs(MethodKeys, MaxMethods) }

PathMaps ==
    UNION { [DOMAIN keys -> MethodMaps] \X {keys} : keys \in DistinctSeqs(PathKeys, MaxPaths) }

ListDocs ==
    { [kind |-> "mapping", servers |-> << [url |-> S_host] >>,
       paths |-> [i \in DOMAIN pm[2] |-> <<pm[2][i], pm[1][i]>>]] : pm \in PathMaps }
    \cup { [kind |-> "mapping", servers |-> << [url |-> S_host] >>] }

InitList ==
    /\ spec \in ListDocs
    /\ InitWidgets
    /\ call = NoCall

ListCall ==
    /\ call.fn = "none"
    /\ endpoints' = list_endpoints(spec).value
    /\ call' = [fn |-> "list_endpoints", ok |-> list_endpoints(spec).ok]
    /\ UNCHANGED <<spec, generate_enabled, selected_items, selected_endpoints,
                   param_values, files, batches, entered>>

GenerateCall ==
    /\ call.fn = "list_endpoints"
    /\ \E k \in DOMAIN endpoints, language \in SupportedLanguages :
          call' = [ fn |-> "generate_script", index |-> k, language |-> language,
                    result |-> generate_script(spec, endpoints[k], << <<S_i, S_1>> >>,
                                               language) ]
    /\ UNCHANGED sessionVars

NextList == ListCall \/ GenerateCall

SpecList == InitList /\ [][NextList]_vars

\* ---- C3
\* The seven verbs of the claim.
SevenVerbs ==
    { <<"g","e","t">>, <<"p","o","s","t">>, <<"p","u","t">>,
      <<"d","e","l","e","t","e">>, <<"p","a","t","c","h">>,
      <<"o","p","t","i","o","n","s">>, <<"h","e","a","d">> }

\* The (path, method key) places of a document whose key is, ignoring case, a verb.
VerbPlaces(paths) ==
    { pl \in (DOMAIN paths) \X (1..MaxMethods + 1) :
        /\ pl[2] \in DOMAIN paths[pl[1]][2]
        /\ Lower(paths[pl[1]][2][pl[2]][1]) \in SevenVerbs }

\* The position of a place among the places, in declaration order.
PlaceRank(pl, places) ==
    1 + Cardinality({ q \in places : q[1] < pl[1] \/ (q[1] = pl[1] /\ q[2] < pl[2]) })

\* C3: once list_endpoints has run, the endpoint list holds one descriptor for each
\* (path, method key) place of the document whose key is case-insensitively one of
\* the seven verbs, in declaration order, none for any other key, and is empty
\* when the document has no `paths`.
C3_ListEndpointsExact ==
    call.fn \in {"list_endpoints", "generate_script"} =>
        LET paths  == RecGet(spec, "paths", << >>)
            places == VerbPlaces(paths)
        IN  /\ Len(endpoints) = Cardinality(places)
            /\ \A pl \in places :
                  LET e   == endpoints[PlaceRank(pl, places)]
                      key == paths[pl[1]][2][pl[2]][1]
                      op  == paths[pl[1]][2][pl[2]][2]
                  IN  /\ e.path = paths[pl[1]][1]
                      /\ e.method = Upper(key)
                      /\ e.summary = RecGet(op, "summary", "")
                      /\ e.operationId = RecGet(op, "operationId", "")
                      /\ e.parameters = RecGet(op, "parameters", << >>)

\* A document of two paths, with an upper-case verb key, a key that is no verb,
\* has been listed and gave at least two descriptors.
C3_Witness ==
    /\ call.fn = "list_endpoints"
    /\ "paths" \in DOMAIN spec
    /\ Len(spec.paths) = 2
    /\ \E i \in DOMAIN spec.paths :
          /\ DictHas(spec.paths[i][2], S_parameters)
          /\ DictHas(spec.paths[i][2], S_GET)
    /\ Len(endpoints) >= 2

\* ---- C8
\* C8: generate_script on a descriptor that list_endpoints returned for the same
\* document does not fail to look the operation up.
C8_ListedEndpointIsFound ==
    call.fn = "generate_script" => call.result.error # "KeyError"

(***************************************************************************)
(* The four renderers over bound requests with at most MaxEntries entries  *)
(* in each of the query, header and form dicts.                            *)
(***************************************************************************)
MaxEntries == 1

DictsUpTo(n) ==
    { [i \in DOMAIN keys |-> <<keys[i], S_1>>] : keys \in DistinctSeqs({S_a, S_q}, n) }

\* None, the empty string, a literal
BodyValues == { << >>, <<EmptyStr>>, << <<"{","}">> >> }

InitRender == InitSession /\ call = NoCall

RenderCall ==
    /\ call.fn = "none"
    /\ \E language \in SupportedLanguages, method \in {S_get, <<"p","o","s","t">>},
          query_params \in DictsUpTo(MaxEntries), header_params \in DictsUpTo(MaxEntries),
          body_param \in BodyValues, form_params \in DictsUpTo(MaxEntries) :
          call' = [ fn |-> "render", language |-> language,
                    body_param |-> body_param, form_params |-> form_params,
                    result |-> Render(language, S_host \o P_v, method,
                                      [ path_params |-> << >>,
                                        query_params |-> query_params,
                                        header_params |-> header_params,
                                        body_param |-> body_param,
                                        form_params |-> form_params ]) ]
    /\ UNCHANGED sessionVars

NextRender == RenderCall

SpecRender == InitRender /\ [][NextRender]_vars

Formats(code) == {code[i][1] : i \in DOMAIN code}

\* the fragments that put a JSON body into the request
BodySendingFormats ==
    { "    json=json_body,",
      "        var content = new StringContent(JsonConvert.SerializeObject(jsonBody), System.Text.Encoding.UTF8, \"application/json\");",
      "    body: JSON.stringify(%s),",
      "$data = json_encode(%s);" }

\* the fragments that put form parameters into the request
FormSendingFormats ==
    { "    data=data,",
      "        var content = new FormUrlEncodedContent(new[] {",
      "    body: new URLSearchParams({",
      "$data = http_build_query([" }

\* the fragments that print the HTTP status code
StatusPrintingFormats ==
    { "print('Status Code:', response.status_code)",
      "        Console.WriteLine($\"Status Code: {response.StatusCode}\");" }

\* the fragments that print the response body text
BodyPrintingFormats ==
    { "print('Response Body:', response.text)",
      "        Console.WriteLine($\"Response Body: {responseString}\");",
      "        console.log('Response Body:', text);",
      "echo 'Response Body: ' . $response;" }

\* ---- C1
\* C1: a rendered request whose body value and form map are both non-empty sends
\* the body and nothing that sends the form parameters, in every renderer.
C1_BodyOverForm ==
    (call.fn = "render" /\ Truthy(call.body_param) /\ call.form_params # EmptyDict) =>
        /\ Formats(call.result.code) \cap BodySendingFormats # {}
        /\ Formats(call.result.code) \cap FormSendingFormats = {}

\* ---- C2
\* C2: every rendered source prints both the HTTP status code and the response
\* body text, in every language.
C2_PrintsStatusAndBody ==
    call.fn = "render" =>
        /\ Formats(call.result.code) \cap StatusPrintingFormats # {}
        /\ Formats(call.result.code) \cap BodyPrintingFormats # {}

(***************************************************************************)
(* The binding of generate_script (lines 84-109) over URLs of at most      *)
(* MaxUrlLen characters and operations of at most MaxParams parameters.    *)
(***************************************************************************)
MaxUrlLen == 7

MaxParams == 2

UrlChars == {"{", "}", "a"}

Urls == UNION { [1..n -> UrlChars] : n \in 0..MaxUrlLen }

ParamNames == {S_a, S_aa}

\* a name is declared once per location
ParameterLists == DistinctSeqs([name : ParamNames, in : {"path", "query"}], MaxParams)

\* the values a user can have entered: none, a plain one, one that holds a placeholder
EnteredTexts == { S_a, Placeholder(S_a) }

ValueMaps ==
    { << >>, << <<S_a, Placeholder(S_a)>> >> }
    \cup { << <<S_a, S_a>>, <<S_aa, w>> >> : w \in EnteredTexts }

InitBind == InitSession /\ call = NoCall

BindCall ==
    /\ call.fn = "none"
    /\ \E url \in Urls, parameters \in ParameterLists, values \in ValueMaps :
          LET b     == BucketParameters(parameters, values, NoBuckets)
              bound == SubstitutePathParams(url, b.path_params)
          IN  call' = [ fn |-> "bind", url |-> url, path_params |-> b.path_params,
                        bound |-> bound,
                        again |-> SubstitutePathParams(bound, b.path_params) ]
    /\ UNCHANGED sessionVars

NextBind == BindCall

SpecBind == InitBind /\ [][NextBind]_vars

\* ---- C4
HasBrace(s) == \E i \in DOMAIN s : s[i] \in {"{", "}"}

\* every "{" of the URL is closed by a "}" with no brace in between, and every
\* "}" closes such a "{": the placeholders are not nested and no brace is stray
FlatBraces(url) ==
    /\ \A i \in DOMAIN url : url[i] = "{" =>
          \E j \in DOMAIN url :
              /\ j > i /\ url[j] = "}"
              /\ \A k \in DOMAIN url : (i < k /\ k < j) => url[k] \notin {"{", "}"}
    /\ \A j \in DOMAIN url : url[j] = "}" =>
          \E i \in DOMAIN url :
              /\ i < j /\ url[i] = "{"
              /\ \A k \in DOMAIN url : (i < k /\ k < j) => url[k] \notin {"{", "}"}

\* the index of the first "}" of s, or 0
FirstClose(s) ==
    IF \E j \in DOMAIN s : s[j] = "}"
    THEN CHOOSE j \in DOMAIN s : s[j] = "}" /\ \A k \in 1..(j - 1) : s[k] # "}"
    ELSE 0

RECURSIVE EveryPlaceholderFilled(_, _)
\* The URL read once from left to right, each {name} of a declared path parameter
\* replaced by that parameter's value and everything else kept.
EveryPlaceholderFilled(url, path_params) ==
    IF url = << >> THEN << >>
    ELSE IF url[1] = "{" /\ FirstClose(url) > 0
         THEN LET name == SubSeq(url, 2, FirstClose(url) - 1)
                  rest == SubSeq(url, FirstClose(url) + 1, Len(url))
              IN  (IF DictHas(path_params, name)
                   THEN DictAt(path_params, name) ELSE Placeholder(name))
                  \o EveryPlaceholderFilled(rest, path_params)
         ELSE <<url[1]>> \o EveryPlaceholderFilled(Tail(url), path_params)

\* no placeholder of a path-located parameter is left, and binding again changes nothing
TotalAndIdempotent ==
    /\ \A i \in DOMAIN call.path_params :
          ~Contains(call.bound, Placeholder(call.path_params[i][1]))
    /\ call.again = call.bound

\* C4, as claimed: for every URL and every value map, after the substitution the
\* bound URL holds no {name} of a path-located parameter, and substituting a
\* second time leaves it unchanged.
C4_SubstitutionTotal == call.fn = "bind" => TotalAndIdempotent

\* C4, amended: the same, for a URL whose braces form placeholders that are not
\* nested and for path-located parameters whose names and values hold no brace;
\* each occurrence of a declared placeholder has then been replaced by its value.
C4_SubstitutionTotalWellFormed ==
    ( /\ call.fn = "bind"
      /\ FlatBraces(call.url)
      /\ \A i \in DOMAIN call.path_params :
            ~HasBrace(call.path_params[i][1]) /\ ~HasBrace(call.path_params[i][2]) )
    => /\ TotalAndIdempotent
       /\ call.bound = EveryPlaceholderFilled(call.url, call.path_params)

\* A well-formed URL with the placeholders of two path-located parameters has
\* been bound to brace-free values, and both placeholders were replaced.
C4_Witness ==
    /\ call.fn = "bind"
    /\ FlatBraces(call.url)
    /\ Len(call.path_params) = 2
    /\ call.path_params[1][1] # call.path_params[2][1]
    /\ \A i \in DOMAIN call.path_params :
          /\ ~HasBrace(call.path_params[i][2])
          /\ call.path_params[i][2] # EmptyStr
          /\ Contains(call.url, Placeholder(call.path_params[i][1]))
    /\ call.bound # call.url

(***************************************************************************)
(* Claims about the session                                                *)
(***************************************************************************)
\* ---- C5
\* C5: a batch run with a language that is none of the four ends, at its first
\* endpoint, with the unsupported-language error, and writes no file.
C5_UnsupportedLanguageNoWrite ==
    ( /\ call.fn = "on_generate_script"
      /\ call.language \notin {"Python", "C#", "JavaScript", "PHP"}
      /\ call.status # "warning" )
    => /\ call.status = "error"
       /\ call.error = "UnsupportedLanguage"
       /\ call.written = {}

\* ---- C6
LastSelected == selected_endpoints[Len(selected_endpoints)]

CombinedPath(language) == <<"cwd", "generated_script", get_file_extension(language)>>

\* C6: a combined-mode batch over more than one selected endpoint that ends
\* without error has written to generated_script.<ext> and to no other path, and
\* that file holds the code generated for the last selected endpoint.
C6_CombinedKeepsLastOnly ==
    ( /\ call.fn = "on_generate_script"
      /\ ~call.separate_files
      /\ call.status = "success"
      /\ Len(selected_endpoints) > 1 )
    => /\ call.written = {CombinedPath(call.language)}
       /\ files[CombinedPath(call.language)] =
              generate_script(spec, LastSelected,
                              DictGet(param_values, LastSelected.operationId, EmptyDict),
                              call.language).code

\* A combined-mode batch over two endpoints with different code has succeeded.
C6_Witness ==
    /\ call.fn = "on_generate_script"
    /\ ~call.separate_files
    /\ call.status = "success"
    /\ Len(selected_endpoints) = 2
    /\ Len(call.codes) = 2
    /\ call.codes[1] # call.codes[2]

\* ---- C7
\* C7: after every selection-change event the selected-endpoint list is the list
\* of the endpoints selected at that moment, and the parameter value map has
\* entries for those endpoints only.
C7_SelectionRebuilt ==
    call.fn = "on_endpoint_selection_changed" =>
        /\ selected_endpoints = [k \in DOMAIN selected_items |-> endpoints[selected_items[k]]]
        /\ DictKeys(param_values)
              \subseteq {endpoints[selected_items[k]].operationId : k \in DOMAIN selected_items}

\* ---- C9
\* C9: in a batch, the value map used for each endpoint is the one entered for
\* that endpoint.
C9_ValuesOfSameEndpoint ==
    call.fn = "on_generate_script" =>
        \A k \in DOMAIN call.used : call.used[k] = entered[k]

\* ---- C10
\* C10: the endpoint list is list_endpoints of the held document (empty when none
\* is held or the held one has no endpoints to list), and every selected endpoint
\* is an endpoint of that document.
C10_SessionConsistent ==
    LET listed == IF spec.kind = "none" THEN << >> ELSE list_endpoints(spec).value
    IN  /\ endpoints = listed
        /\ \A k \in DOMAIN selected_endpoints :
              \E j \in DOMAIN listed : listed[j] = selected_endpoints[k]

=============================================================================
